---- MODULE Spec2Model ----
(***************************************************************************)
(* Model of the manifest store and diff engine of the Kiwi build tools     *)
(* (utilities/build/manifest.py) and of the debugfs command batch that     *)
(* utilities/build/image.py writes from a diff.                            *)
(*                                                                         *)
(* Python strings that the code takes apart (paths) are sequences of       *)
(* character codes, so that normpath, lstrip, dirname and the string sort  *)
(* are computed as the code computes them.                                 *)
(***************************************************************************)
EXTENDS Integers, Sequences, FiniteSets, TLC

VARIABLES
    entries,        \* entries[m]: Manifest.entries, an insertion-ordered dict
    dependencies,   \* dependencies[m]: Manifest.dependencies
    finalised,      \* finalised[m]: Manifest.finalised
    removes,        \* ManifestActions.removes (class attribute, shared list)
    files,          \* ManifestActions.files   (class attribute, shared list)
    links,          \* ManifestActions.links   (class attribute, shared list)
    manifest_file,  \* the JSON manifest file on the host, NoFile when absent
    calls,          \* number of get_actions calls made by this process
    ret,            \* the most recent call: operation, receiver, outcome
    host,           \* host[f]: content digest of the host file named f
    image,          \* the files of one disk image and the pass building it
    archive,        \* the output file of fs_archive_action
    package         \* the work directory of one package

vars == <<entries, dependencies, finalised, removes, files, links,
          manifest_file, calls, ret, host, image, archive, package>>

----------------------------------------------------------------------------
(* Bounds of the exploration.                                              *)

MaxEntries == 3     \* entries of the two manifests together
MaxCalls == 1       \* get_actions calls per process, store specification
MaxDiffCalls == 2   \* get_actions calls per process, diff specification
MaxBuilds == 2      \* build processes of an image, image specifications

Manifests == {1, 2}

\* The Manifest objects: those two, and object 3, a Manifest() made to
\* deserialise a manifest file into.
Objects == Manifests \cup {3}

----------------------------------------------------------------------------
(* Strings as sequences of character codes.                                *)

SLASH == 47
DOT == 46

\* Paths given to add_file and add_link by the store specification:
\* 'a/b', '//./x/../a/b' (which is 'a/b' once normalised) and 'a/b/c'
RawPaths ==
    { <<97, 47, 98>>,
      <<47, 47, 46, 47, 120, 47, 46, 46, 47, 97, 47, 98>>,
      <<97, 47, 98, 47, 99>> }

\* Paths given to add_file and add_link by the diff specification:
\* 'a/b', 'a/b/c' and 'a./c' (the directory 'a.' sorts between 'a' and 'a/b')
DiffPaths ==
    { <<97, 47, 98>>, <<97, 47, 98, 47, 99>>, <<97, 46, 47, 99>> }

\* str.startswith(prefix)
startswith(s, prefix) ==
    /\ Len(s) >= Len(prefix)
    /\ SubSeq(s, 1, Len(prefix)) = prefix

\* str.lstrip('/')
RECURSIVE lstrip(_)
lstrip(s) ==
    IF s # <<>> /\ Head(s) = SLASH THEN lstrip(Tail(s)) ELSE s

\* str.rstrip('/')
RECURSIVE rstrip(_)
rstrip(s) ==
    IF s # <<>> /\ s[Len(s)] = SLASH THEN rstrip(SubSeq(s, 1, Len(s) - 1)) ELSE s

\* str.split('/'): the components between the slashes, empty ones included
RECURSIVE split(_)
split(s) ==
    IF \E i \in 1..Len(s) : s[i] = SLASH
    THEN LET i == CHOOSE k \in 1..Len(s) :
                     /\ s[k] = SLASH
                     /\ \A j \in 1..(k - 1) : s[j] # SLASH
         IN <<SubSeq(s, 1, i - 1)>> \o split(SubSeq(s, i + 1, Len(s)))
    ELSE <<s>>

\* '/'.join(comps)
RECURSIVE join(_)
join(comps) ==
    IF comps = <<>> THEN <<>>
    ELSE IF Len(comps) = 1 THEN comps[1]
    ELSE comps[1] \o <<SLASH>> \o join(Tail(comps))

\* The component loop of posixpath.normpath.
RECURSIVE normcomps(_, _, _)
normcomps(comps, new_comps, initial_slashes) ==
    IF comps = <<>> THEN new_comps
    ELSE LET comp == Head(comps)
             n == Len(new_comps)
         IN IF comp = <<>> \/ comp = <<DOT>>
            THEN normcomps(Tail(comps), new_comps, initial_slashes)
            ELSE IF \/ comp # <<DOT, DOT>>
                    \/ (initial_slashes = 0 /\ n = 0)
                    \/ (n > 0 /\ new_comps[n] = <<DOT, DOT>>)
            THEN normcomps(Tail(comps), Append(new_comps, comp), initial_slashes)
            ELSE IF n > 0
            THEN normcomps(Tail(comps), SubSeq(new_comps, 1, n - 1), initial_slashes)
            ELSE normcomps(Tail(comps), new_comps, initial_slashes)

\* os.path.normpath(path)
normpath(path) ==
    IF path = <<>> THEN <<DOT>>
    ELSE LET initial_slashes ==
                 IF ~startswith(path, <<SLASH>>) THEN 0
                 ELSE IF startswith(path, <<SLASH, SLASH>>)
                         /\ ~startswith(path, <<SLASH, SLASH, SLASH>>)
                      THEN 2 ELSE 1
             joined == join(normcomps(split(path), <<>>, initial_slashes))
             result == [i \in 1..initial_slashes |-> SLASH] \o joined
         IN IF result = <<>> THEN <<DOT>> ELSE result

\* os.path.dirname(p)
dirname(p) ==
    LET slashes == {k \in 1..Len(p) : p[k] = SLASH}
        i == IF slashes = {} THEN 0
             ELSE CHOOSE k \in slashes : \A j \in slashes : j <= k
        head == SubSeq(p, 1, i)
    IN IF head # <<>> /\ \E k \in 1..Len(head) : head[k] # SLASH
       THEN rstrip(head) ELSE head

\* Python's order on str: s < t
RECURSIVE strless(_, _)
strless(s, t) ==
    IF t = <<>> THEN FALSE
    ELSE IF s = <<>> THEN TRUE
    ELSE IF Head(s) # Head(t) THEN Head(s) < Head(t)
    ELSE strless(Tail(s), Tail(t))

\* list(S) followed by list.sort(), for a set of str
RECURSIVE sorted(_)
sorted(S) ==
    IF S = {} THEN <<>>
    ELSE LET least == CHOOSE s \in S : \A t \in S \ {s} : strless(s, t)
         IN <<least>> \o sorted(S \ {least})

----------------------------------------------------------------------------
(* Python values.                                                          *)

\* None, where a str is expected (ManifestEntry.checksum of a new entry)
Null == "None"

\* A target passed to add_file: an instance of class cls naming val.
SConsFile(val) == [cls |-> "SCons.Node.FS.File", val |-> val]
Str(val) == [cls |-> "str", val |-> val]
NoTarget == [cls |-> "NoneType", val |-> <<>>]

\* (target, tracked) given to add_file: the node 'n' tracked, the plain path
\* 's' untracked and tracked, and None.
FileArgs ==
    { <<SConsFile(<<110>>), TRUE>>, <<Str(<<115>>), FALSE>>,
      <<Str(<<115>>), TRUE>>, <<NoTarget, FALSE>> }

\* Targets given to add_link: 'k', and 'l' in the diff specification.
LinkTargets == { Str(<<107>>) }
DiffLinkTargets == { Str(<<107>>), Str(<<108>>) }

\* Root paths given to deserialise: None and 'r'.
RootPaths == { NoTarget, Str(<<114>>) }

\* The host files that targets name, 'n' and 's', and the content digests
\* they start with.
HostFiles == [f \in {<<110>>, <<115>>} |-> IF f = <<110>> THEN "x1" ELSE "x2"]

\* The content digest of a target's file: File.get_csig() for a node, the
\* MD5 hex digest of the file for a plain path.
\* A file of a host directory tree keeps the digest TreeDigest.
TreeDigest == "x3"
get_csig(target) ==
    IF target.val \in DOMAIN host THEN host[target.val] ELSE TreeDigest
_checksum_file(target) ==
    IF target.val \in DOMAIN host THEN host[target.val] ELSE TreeDigest

\* ManifestEntry(entry_type, target, checksum), stored under its path
ManifestEntry(path, entry_type, target, checksum) ==
    [path |-> path, entry_type |-> entry_type, target |-> target,
     checksum |-> checksum]

\* dict: keys, membership, lookup and assignment, keeping insertion order
keys(d) == {d[i].path : i \in 1..Len(d)}

has(d, path) == \E i \in 1..Len(d) : d[i].path = path

get(d, path) == d[CHOOSE i \in 1..Len(d) : d[i].path = path]

setitem(d, entry) ==
    IF has(d, entry.path)
    THEN [i \in 1..Len(d) |-> IF d[i].path = entry.path THEN entry ELSE d[i]]
    ELSE Append(d, entry)

\* x in list
contains(list, x) == \E i \in 1..Len(list) : list[i] = x

\* ManifestEntry.compare
compare(self, other) ==
    IF self.entry_type = other.entry_type
    THEN IF self.entry_type = "File" THEN self.checksum = other.checksum
         ELSE IF self.entry_type = "Link" THEN self.target = other.target
         ELSE FALSE
    ELSE FALSE

\* ManifestEntry.serialise: the JSON object of one entry (an absent key is Null)
entry_serialise(self) ==
    [type |-> self.entry_type,
     checksum |-> IF self.entry_type = "File" THEN self.checksum ELSE Null,
     target |-> IF self.entry_type = "Link" THEN self.target.val ELSE <<>>]

\* ManifestEntry.deserialise reading the checksum whatever the type is: the
\* target of a Link is not loaded.
entry_deserialise_untyped(path, values, root_path) ==
    ManifestEntry(path, values.type,
        IF root_path # NoTarget /\ values.type = "File"
        THEN Str(root_path.val \o <<SLASH>> \o path) ELSE NoTarget,
        values.checksum)

\* ManifestEntry.deserialise, then the root_path rule of Manifest.deserialise
entry_deserialise(path, values, root_path) ==
    ManifestEntry(path, values.type,
        IF values.type = "Link" THEN Str(values.target)
        ELSE IF root_path # NoTarget
        THEN Str(IF root_path.val = <<>> THEN path
                 ELSE IF path # <<>> /\ Head(path) = SLASH THEN path
                 ELSE IF root_path.val[Len(root_path.val)] = SLASH
                 THEN root_path.val \o path
                 ELSE root_path.val \o <<SLASH>> \o path)
        ELSE NoTarget,
        IF values.type = "File" THEN values.checksum ELSE Null)

----------------------------------------------------------------------------
(* class Manifest.  A method is an operator from the object (and, for      *)
(* combine, the other object) to the object after the call and the         *)
(* exception raised, "" when the call returns.                             *)

Manifest(m) ==
    [entries |-> entries[m], dependencies |-> dependencies[m],
     finalised |-> finalised[m], exc |-> ""]

\* Manifest(): Manifest.__init__
Manifest_new ==
    [entries |-> <<>>, dependencies |-> <<>>, finalised |-> FALSE, exc |-> ""]

raise(self, exc) == [self EXCEPT !.exc = exc]

returns(self) == self.exc = ""

\* _add_entry without its duplicate check: the entry is assigned over the old one.
_add_entry_overwrite(self, path, entry_type, target) ==
    IF self.finalised THEN raise(self, "Manifest is already finalised")
    ELSE [self EXCEPT !.entries =
             setitem(@, ManifestEntry(lstrip(normpath(path)), entry_type,
                                      target, Null))]

\* _add_entry without its finalised check.
_add_entry_unchecked(self, path, entry_type, target) ==
    LET norm == lstrip(normpath(path))
    IN IF has(self.entries, norm)
       THEN raise(self, "Adding duplicate path to manifest")
       ELSE [self EXCEPT !.entries =
                setitem(@, ManifestEntry(norm, entry_type, target, Null))]

\* Manifest._add_entry
_add_entry(self, path, entry_type, target) ==
    IF self.finalised THEN raise(self, "Manifest is already finalised")
    ELSE LET norm == lstrip(normpath(path))
         IN IF has(self.entries, norm)
            THEN raise(self, "Adding duplicate path to manifest")
            ELSE [self EXCEPT !.entries =
                     setitem(@, ManifestEntry(norm, entry_type, target, Null))]

\* Manifest.add_file
Manifest_add_file(self, path, target, tracked) ==
    IF target.cls # "SCons.Node.FS.File" /\ (tracked \/ target.cls # "str")
    THEN raise(self, "Target is not valid")
    ELSE LET added == _add_entry(self, path, "File", target)
         IN IF returns(added) /\ tracked
            THEN [added EXCEPT !.dependencies = Append(@, target)]
            ELSE added

\* Manifest.add_link
Manifest_add_link(self, path, target) == _add_entry(self, path, "Link", target)

\* The loop of Manifest.combine over other.entries.items(), from entry i on.
RECURSIVE combine_loop(_, _, _)
combine_loop(self, other, i) ==
    IF i > Len(other.entries) THEN self
    ELSE LET entry == other.entries[i]
         IN IF has(self.entries, entry.path)
            THEN raise(self, "Duplicate manifest entries when combining")
            ELSE combine_loop(
                     [self EXCEPT
                         !.entries = setitem(@, entry),
                         !.dependencies =
                             IF contains(other.dependencies, entry.target)
                             THEN Append(@, entry.target) ELSE @],
                     other, i + 1)

\* combine without its check that the source manifest is finalised.
Manifest_combine_unfinalised(self, other) ==
    IF self.finalised THEN raise(self, "Manifest is already finalised")
    ELSE combine_loop(self, other, 1)

\* Manifest.combine
Manifest_combine(self, other) ==
    IF self.finalised THEN raise(self, "Manifest is already finalised")
    ELSE IF ~other.finalised THEN raise(self, "Source manifest is not finalised")
    ELSE combine_loop(self, other, 1)

\* The loop body of finalise leaving every checksum as it is.
finalise_entry_skip(entry) == entry

\* Manifest.finalise
finalise_entry(entry) ==
    IF entry.entry_type = "File" /\ entry.checksum = Null
    THEN [entry EXCEPT !.checksum =
             IF entry.target.cls = "SCons.Node.FS.File"
             THEN get_csig(entry.target)
             ELSE _checksum_file(entry.target)]
    ELSE entry

\* finalise without its early return, taking the checksum of every File
\* again.
Manifest_finalise_refresh(self) ==
    [self EXCEPT
        !.entries = [i \in 1..Len(self.entries) |->
                        finalise_entry([self.entries[i] EXCEPT !.checksum = Null])],
        !.finalised = TRUE]

Manifest_finalise(self) ==
    IF self.finalised THEN self
    ELSE [self EXCEPT
             !.entries = [i \in 1..Len(self.entries) |->
                             finalise_entry(self.entries[i])],
             !.finalised = TRUE]

\* Manifest._get_dirs: the dirname chain of one path, then of all of them
RECURSIVE path_dirs(_)
path_dirs(path) ==
    LET parent == dirname(path)
    IN IF parent # <<>> THEN {parent} \cup path_dirs(parent) ELSE {}

\* _get_dirs with the sort the wrong way round.
_get_dirs_reversed(self) ==
    LET dirs == sorted(UNION {path_dirs(path) : path \in keys(self.entries)})
    IN [i \in 1..Len(dirs) |-> dirs[Len(dirs) + 1 - i]]

_get_dirs(self) ==
    sorted(UNION {path_dirs(path) : path \in keys(self.entries)})

\* json.dumps(result, sort_keys = True) of Manifest.serialise: the members
\* of the JSON object in key order
json_dumps(self) ==
    LET paths == sorted(keys(self.entries))
    IN [i \in 1..Len(paths) |->
           [path |-> paths[i],
            values |-> entry_serialise(get(self.entries, paths[i]))]]

\* The loop of Manifest.deserialise over result.items()
RECURSIVE deserialise_loop(_, _, _, _)
deserialise_loop(self, result, root_path, i) ==
    IF i > Len(result) THEN self
    ELSE deserialise_loop(
             [self EXCEPT !.entries = setitem(@,
                 entry_deserialise(result[i].path, result[i].values, root_path))],
             result, root_path, i + 1)

\* deserialise that refuses a manifest with entries only.
Manifest_deserialise_nonempty(self, source, root_path) ==
    IF self.entries # <<>>
    THEN raise(self, "Deserialsing to non-empty manifest")
    ELSE IF ~source.exists THEN raise(self, "FileNotFoundError")
    ELSE [deserialise_loop(self, source.json, root_path, 1)
             EXCEPT !.finalised = TRUE]

\* Manifest.deserialise, source_path holding the JSON text `source`
Manifest_deserialise(self, source, root_path) ==
    IF self.entries # <<>> \/ self.finalised
    THEN raise(self, "Deserialsing to non-empty manifest")
    ELSE IF ~source.exists THEN raise(self, "FileNotFoundError")
    ELSE [deserialise_loop(self, source.json, root_path, 1)
             EXCEPT !.finalised = TRUE]

\* Manifest.get_actions: what one call appends to removes, files and links
changed(self, orig_manifest, entry) ==
    IF orig_manifest.given /\ has(orig_manifest.entries, entry.path)
    THEN ~compare(entry, get(orig_manifest.entries, entry.path))
    ELSE TRUE

\* get_actions that also removes the directories that only the original
\* manifest implies.
get_actions_removes_dirs(self, orig_manifest) ==
    IF orig_manifest.given
    THEN LET gone == SelectSeq(orig_manifest.entries, LAMBDA orig_entry :
                 IF has(self.entries, orig_entry.path)
                 THEN ~compare(get(self.entries, orig_entry.path), orig_entry)
                 ELSE TRUE)
             old_dirs == SelectSeq(_get_dirs(orig_manifest), LAMBDA dir :
                 ~contains(_get_dirs(self), dir))
         IN [i \in 1..Len(gone) |-> gone[i].path] \o old_dirs
    ELSE <<>>

get_actions_removes(self, orig_manifest) ==
    IF orig_manifest.given
    THEN LET gone == SelectSeq(orig_manifest.entries, LAMBDA orig_entry :
                 IF has(self.entries, orig_entry.path)
                 THEN ~compare(get(self.entries, orig_entry.path), orig_entry)
                 ELSE TRUE)
         IN [i \in 1..Len(gone) |-> gone[i].path]
    ELSE <<>>

get_actions_files(self, orig_manifest) ==
    LET new == SelectSeq(self.entries, LAMBDA entry :
                   changed(self, orig_manifest, entry) /\ entry.entry_type = "File")
    IN [i \in 1..Len(new) |-> <<new[i].path, new[i].target>>]

get_actions_links(self, orig_manifest) ==
    LET new == SelectSeq(self.entries, LAMBDA entry :
                   changed(self, orig_manifest, entry) /\ entry.entry_type = "Link")
    IN [i \in 1..Len(new) |-> <<new[i].path, new[i].target>>]

\* os.path.join(a, b)
os_path_join(a, b) ==
    IF b # <<>> /\ Head(b) = SLASH THEN b
    ELSE IF a = <<>> \/ a[Len(a)] = SLASH THEN a \o b
    ELSE a \o <<SLASH>> \o b

\* A host directory tree: the node `name` of the directory `dir` is a
\* directory ("dir"), a directory that cannot be listed ("locked"), a
\* regular file ("file"), a symbolic link ("link") to target, or something
\* else ("fifo").
TreeNode(dir, name, kind, target) ==
    [dir |-> dir, name |-> name, kind |-> kind, target |-> target]

\* r/: a/ (x), b, c (a fifo), l -> a
TreeA ==
    { TreeNode(<<>>, <<114>>, "dir", <<>>),
      TreeNode(<<114>>, <<98>>, "file", <<>>),
      TreeNode(<<114>>, <<97>>, "dir", <<>>),
      TreeNode(<<114, 47, 97>>, <<120>>, "file", <<>>),
      TreeNode(<<114>>, <<99>>, "fifo", <<>>),
      TreeNode(<<114>>, <<108>>, "link", <<97>>) }

\* r/: a, d/ (x), where d cannot be listed
TreeB ==
    { TreeNode(<<>>, <<114>>, "dir", <<>>),
      TreeNode(<<114>>, <<97>>, "file", <<>>),
      TreeNode(<<114>>, <<100>>, "locked", <<>>),
      TreeNode(<<114, 47, 100>>, <<120>>, "file", <<>>) }

\* no r at all, and r/ with nothing in it
Trees == { TreeA, TreeB, {}, {TreeNode(<<>>, <<114>>, "dir", <<>>)} }

\* source_path given to add_from_dir_tree: 'r' and 'r/a'; dest_path: ''
\* and 'd'
SourceDirs == { <<114>>, <<114, 47, 97>> }
DestPaths == { <<>>, <<100>> }

\* os.listdir(path): the names in the directory; it raises unless path is
\* a directory that can be listed
listable(tree, path) ==
    \E n \in tree : os_path_join(n.dir, n.name) = path /\ n.kind = "dir"

os_listdir(tree, path) == {n.name : n \in {x \in tree : x.dir = path}}

\* os.lstat(path).st_mode and os.readlink(path)
lstat(tree, path) ==
    (CHOOSE n \in tree : os_path_join(n.dir, n.name) = path).kind

readlink(tree, path) ==
    (CHOOSE n \in tree : os_path_join(n.dir, n.name) = path).target

\* add_from_dir_tree without the sort: the names in the reverse order.
sort_entries_reversed(names) ==
    LET list == sorted(names)
    IN [i \in 1..Len(list) |-> list[Len(list) + 1 - i]]

\* entries.sort() of add_from_dir_tree
sort_entries(names) == sorted(names)

\* Manifest.add_from_dir_tree on the host directory tree `tree`, and its
\* loop over the sorted names from name i on; an exception of add_file or
\* add_link is no OSError and ends the call.
RECURSIVE Manifest_add_from_dir_tree(_, _, _, _, _)
RECURSIVE dir_tree_loop(_, _, _, _, _, _, _)
dir_tree_loop(self, tree, source_path, tracked, dest_path, names, i) ==
    IF i > Len(names) \/ ~returns(self) THEN self
    ELSE LET entry_source_path == os_path_join(source_path, names[i])
             entry_dest_path == os_path_join(dest_path, names[i])
             st_mode == lstat(tree, entry_source_path)
             after ==
                 IF st_mode \in {"dir", "locked"}
                 THEN Manifest_add_from_dir_tree(self, tree, entry_source_path,
                                                 tracked, entry_dest_path)
                 ELSE IF st_mode = "link"
                 THEN Manifest_add_link(self, entry_dest_path,
                                        Str(readlink(tree, entry_source_path)))
                 ELSE IF st_mode = "file"
                 THEN IF tracked
                      THEN Manifest_add_file(self, entry_dest_path,
                                             SConsFile(entry_source_path), TRUE)
                      ELSE Manifest_add_file(self, entry_dest_path,
                                             Str(entry_source_path), FALSE)
                 ELSE self
         IN dir_tree_loop(after, tree, source_path, tracked, dest_path,
                          names, i + 1)

Manifest_add_from_dir_tree(self, tree, source_path, tracked, dest_path) ==
    IF ~listable(tree, source_path) THEN self
    ELSE dir_tree_loop(self, tree, source_path, tracked, dest_path,
                       sort_entries(os_listdir(tree, source_path)), 1)

----------------------------------------------------------------------------
(* The program: two Manifest objects, the class ManifestActions and one    *)
(* manifest file, driven by any sequence of method calls.                  *)

NoFile == [exists |-> FALSE, json |-> <<>>]

\* orig_manifest = None, or a Manifest
None == [given |-> FALSE, entries |-> <<>>]
Some(m) == [given |-> TRUE, entries |-> entries[m]]

\* The files of one disk image ('<image>.system', '.uuid', '.efi' and
\* '.parts'), none of which exists yet, and do_disk_image_parts, which is
\* not running: its position pc, its locals persistent, create and
\* system_uuid, its work directory, and the exception it ended with.  The
\* '.uuid' file is -1 when absent, 0 when empty, else the UUID it holds; a
\* system image has the UUID it was formatted with, 0 when it is not
\* formatted.
NoImage ==
    [pc |-> "idle", persistent |-> FALSE, create |-> FALSE, system_uuid |-> 0,
     tmp_dir |-> FALSE, exc |-> "",
     uuid_file |-> -1,
     system |-> [exists |-> FALSE, uuid |-> 0, fs |-> {}, manifest |-> NoFile],
     efi |-> [exists |-> FALSE, state |-> "empty", uuid |-> 0],
     parts |-> 0,
     uuids |-> 0, builds |-> 1, done |-> FALSE]

\* The work directory of a package that has not been extracted: compare
\* is what package.compare(work_package_path) returns, dir is the tree
\* below the directory of the package, and extracted tells whether the
\* latest _extract_package ran tar.
NoPackage == [compare |-> FALSE, dir |-> {}, extracted |-> FALSE]

\* The archive output does not exist.
NoArchive == [state |-> "absent", members |-> <<>>, next |-> 1]

\* What the most recent call was and how it ended: the exception it raised
\* ("" when it returned) and, for get_actions, its arguments and the dirs of
\* the ManifestActions object it returned.
Returned(op, exc) ==
    [op |-> op, exc |-> exc, self |-> 0, orig |-> 0, dirs |-> <<>>]

\* The object m after a call: its fields are those of `after`.
Assign(m, after) ==
    /\ entries' = [entries EXCEPT ![m] = after.entries]
    /\ dependencies' = [dependencies EXCEPT ![m] = after.dependencies]
    /\ finalised' = [finalised EXCEPT ![m] = after.finalised]

\* The bound of the exploration: the manifests hold MaxEntries entries at most.
Fits(m, after) ==
    m \in Manifests =>
        \A o \in Manifests \ {m} :
            Len(after.entries) + Len(entries[o]) <= MaxEntries

Init ==
    /\ entries = [m \in Objects |-> <<>>]
    /\ dependencies = [m \in Objects |-> <<>>]
    /\ finalised = [m \in Objects |-> FALSE]
    /\ removes = <<>>
    /\ files = <<>>
    /\ links = <<>>
    /\ manifest_file = NoFile
    /\ calls = 0
    /\ ret = Returned("__init__", "")
    /\ host = HostFiles
    /\ image = NoImage
    /\ archive = NoArchive
    /\ package = NoPackage

add_file(m, path, target, tracked) ==
    LET after == Manifest_add_file(Manifest(m), path, target, tracked)
    IN /\ Fits(m, after)
       /\ Assign(m, after)
       /\ ret' = Returned("add_file", after.exc)
       /\ UNCHANGED <<removes, files, links, manifest_file, calls>>
       /\ UNCHANGED <<host, image, archive, package>>

add_link(m, path, target) ==
    LET after == Manifest_add_link(Manifest(m), path, target)
    IN /\ Fits(m, after)
       /\ Assign(m, after)
       /\ ret' = Returned("add_link", after.exc)
       /\ UNCHANGED <<removes, files, links, manifest_file, calls>>
       /\ UNCHANGED <<host, image, archive, package>>

combine(m, o) ==
    LET after == Manifest_combine(Manifest(m), Manifest(o))
    IN /\ Fits(m, after)
       /\ Assign(m, after)
       /\ ret' = Returned("combine", after.exc)
       /\ UNCHANGED <<removes, files, links, manifest_file, calls>>
       /\ UNCHANGED <<host, image, archive, package>>

add_from_dir_tree(m, tree, source_path, tracked, dest_path) ==
    LET after == Manifest_add_from_dir_tree(Manifest(m), tree, source_path,
                                            tracked, dest_path)
    IN /\ Fits(m, after)
       /\ Assign(m, after)
       /\ ret' = Returned("add_from_dir_tree", after.exc)
       /\ UNCHANGED <<removes, files, links, manifest_file, calls>>
       /\ UNCHANGED <<host, image, archive, package>>

finalise(m) ==
    LET after == Manifest_finalise(Manifest(m))
    IN /\ Assign(m, after)
       /\ ret' = Returned("finalise", after.exc)
       /\ UNCHANGED <<removes, files, links, manifest_file, calls>>
       /\ UNCHANGED <<host, image, archive, package>>

serialise(m) ==
    /\ IF ~finalised[m]
       THEN /\ ret' = Returned("serialise", "Manifest is not finalised")
            /\ UNCHANGED manifest_file
       ELSE /\ ret' = Returned("serialise", "")
            /\ manifest_file' = [exists |-> TRUE, json |-> json_dumps(Manifest(m))]
    /\ UNCHANGED <<entries, dependencies, finalised, removes, files, links, calls>>
    /\ UNCHANGED <<host, image, archive, package>>

deserialise(m, root_path) ==
    LET after == Manifest_deserialise(Manifest(m), manifest_file, root_path)
    IN /\ Fits(m, after)
       /\ Assign(m, after)
       /\ ret' = Returned("deserialise", after.exc)
       /\ UNCHANGED <<removes, files, links, manifest_file, calls>>
       /\ UNCHANGED <<host, image, archive, package>>

\* Manifest.get_actions: actions.dirs is assigned on the new object, while
\* actions.removes, actions.files and actions.links are the lists of the
\* class, which the call appends to.
get_actions_call(m, orig) ==
    LET orig_manifest == IF orig = 0 THEN None ELSE Some(orig)
    IN /\ calls' = calls + 1
       /\ removes' = removes \o get_actions_removes(Manifest(m), orig_manifest)
       /\ files' = files \o get_actions_files(Manifest(m), orig_manifest)
       /\ links' = links \o get_actions_links(Manifest(m), orig_manifest)
       /\ ret' = [op |-> "get_actions", self |-> m, exc |-> "", orig |-> orig,
                  dirs |-> _get_dirs(Manifest(m))]

get_actions(m, orig) ==
    /\ get_actions_call(m, orig)
    /\ UNCHANGED <<entries, dependencies, finalised, manifest_file>>
    /\ UNCHANGED <<host, image, archive, package>>

\* Manifest.get_actions is called by the image builder on the manifest of
\* the environment, which manifest_action has finalised, against None or a
\* manifest that deserialise has loaded.
Built(m, orig) == finalised[m] /\ (orig # 0 => finalised[orig])

\* The store: any sequence of calls on two manifests.
Next ==
    \/ \E m \in Manifests, path \in RawPaths, args \in FileArgs :
          add_file(m, path, args[1], args[2])
    \/ \E m \in Manifests, path \in RawPaths, target \in LinkTargets :
          add_link(m, path, target)
    \/ \E m \in Manifests, o \in Manifests : combine(m, o)
    \/ \E m \in Manifests : finalise(m)
    \/ \E m \in Manifests : serialise(m)
    \/ \E m \in Manifests, root_path \in RootPaths : deserialise(m, root_path)
    \/ \E m \in Manifests, orig \in {0} \cup Manifests :
          calls < MaxCalls /\ Built(m, orig) /\ get_actions(m, orig)

Spec == Init /\ [][Next]_vars

\* The diff engine: manifest 1 (new) and manifest 2 (old) are described and
\* finalised, then the build takes the actions of manifest 1 against None,
\* itself or manifest 2.
NextDiff ==
    \/ \E m \in Manifests, path \in DiffPaths, args \in FileArgs :
          calls = 0 /\ add_file(m, path, args[1], args[2])
    \/ \E m \in Manifests, path \in DiffPaths, target \in DiffLinkTargets :
          calls = 0 /\ add_link(m, path, target)
    \/ \E m \in Manifests : calls = 0 /\ finalise(m)
    \/ \E orig \in {0} \cup Manifests :
          calls < MaxDiffCalls /\ Built(1, orig) /\ get_actions(1, orig)

SpecDiff == Init /\ [][NextDiff]_vars

\* The digests a host file can have.
Digests == {"x1", "x2"}

\* The build rewrites the host file f: its content digest changes.
host_write(f, digest) ==
    /\ host[f] # digest
    /\ host' = [host EXCEPT ![f] = digest]
    /\ ret' = Returned("write", "")
    /\ UNCHANGED <<entries, dependencies, finalised, removes, files, links,
                   manifest_file, calls, image, archive, package>>

\* Merging: manifests 1 and 2 are described, finalised and combined,
\* manifest 1 is serialised and the file is loaded into the new manifest 3;
\* once manifest 1 is finalised the build goes on rewriting host files.
NextMerge ==
    \/ \E m \in Manifests, path \in RawPaths, args \in FileArgs :
          add_file(m, path, args[1], args[2])
    \/ \E m \in Manifests, path \in RawPaths, target \in LinkTargets :
          add_link(m, path, target)
    \/ \E m \in Manifests, o \in Manifests : combine(m, o)
    \/ \E m \in Manifests : finalise(m)
    \/ serialise(1)
    \/ \E root_path \in RootPaths : deserialise(3, root_path)
    \/ \E f \in DOMAIN HostFiles, digest \in Digests :
          finalised[1] /\ host_write(f, digest)

SpecMerge == Init /\ [][NextMerge]_vars

\* Paths given to add_file and add_link when manifests are combined: 'a',
\* 'b' and 'c'; the source manifest uses the first two.
CombinePaths == { <<97>>, <<98>>, <<99>> }
SourcePaths == { <<97>>, <<98>> }

\* (target, tracked) given to add_file on the source manifest: the nodes
\* 'n' and 's' tracked, the node 'n' untracked and the plain path 's'
\* untracked.
DepArgs ==
    { <<SConsFile(<<110>>), TRUE>>, <<SConsFile(<<115>>), TRUE>>,
      <<SConsFile(<<110>>), FALSE>>, <<Str(<<115>>), FALSE>> }

\* Combining: manifest 2 is described and finalised, manifest 3 is
\* described and receives manifest 2.
NextCombine ==
    \/ \E path \in SourcePaths, args \in DepArgs :
          add_file(2, path, args[1], args[2])
    \/ \E path \in SourcePaths, target \in LinkTargets :
          add_link(2, path, target)
    \/ \E path \in CombinePaths : add_file(3, path, SConsFile(<<110>>), TRUE)
    \/ \E path \in CombinePaths, target \in LinkTargets :
          add_link(3, path, target)
    \/ \E m \in {2, 3} : finalise(m)
    \/ combine(3, 2)

SpecCombine == Init /\ [][NextCombine]_vars

\* Saving and loading: manifest 1 is described, finalised and serialised,
\* the file is loaded into the new manifest 3, and the build takes the
\* actions of manifest 1 against None and of each of the two against the
\* other.
NextRound ==
    \/ \E path \in RawPaths, args \in FileArgs :
          calls = 0 /\ add_file(1, path, args[1], args[2])
    \/ \E path \in RawPaths, target \in LinkTargets :
          calls = 0 /\ add_link(1, path, target)
    \/ calls = 0 /\ finalise(1)
    \/ calls = 0 /\ serialise(1)
    \/ \E root_path \in RootPaths : calls = 0 /\ deserialise(3, root_path)
    \/ \E pair \in {<<1, 0>>, <<1, 3>>, <<3, 1>>} :
          /\ calls < MaxDiffCalls /\ Built(pair[1], pair[2])
          /\ get_actions(pair[1], pair[2])

SpecRound == Init /\ [][NextRound]_vars

\* Directory trees: manifest 1 is described by add_file and by
\* add_from_dir_tree over host directory trees, and finalised.
NextTree ==
    \/ \E path \in {<<97>>, <<100, 47, 98>>} :
          add_file(1, path, SConsFile(<<110>>), TRUE)
    \/ \E tree \in Trees, source_path \in SourceDirs, tracked \in BOOLEAN,
          dest_path \in DestPaths :
          add_from_dir_tree(1, tree, source_path, tracked, dest_path)
    \/ finalise(1)

SpecTree == Init /\ [][NextTree]_vars

----------------------------------------------------------------------------
(* The debugfs command batch of do_disk_image_parts, and debugfs running   *)
(* it on the filesystem of the system image.                               *)

\* escape(s): '"' becomes '\"'
RECURSIVE escape(_)
escape(s) ==
    IF s = <<>> THEN <<>>
    ELSE (IF Head(s) = 34 THEN <<92, 34>> ELSE <<Head(s)>>) \o escape(Tail(s))

\* str(target)
str(target) == IF target.cls = "NoneType" THEN <<78, 111, 110, 101>> ELSE target.val

\* The commands written for actions: mkdir, rm, write and symlink lines.
debugfs_actions(dirs, removes_, files_, links_) ==
    [i \in 1..Len(dirs) |->
        [cmd |-> "mkdir", path |-> escape(dirs[i]), arg |-> <<>>]]
    \o [i \in 1..Len(removes_) |->
        [cmd |-> "rm", path |-> escape(removes_[i]), arg |-> <<>>]]
    \o [i \in 1..Len(files_) |->
        [cmd |-> "write", path |-> escape(files_[i][1]),
         arg |-> escape(str(files_[i][2]))]]
    \o [i \in 1..Len(links_) |->
        [cmd |-> "symlink", path |-> escape(links_[i][1]),
         arg |-> escape(links_[i][2].val)]]

\* 'system/boot/kboot.cfg' and '.manifest', and the host files written to
\* them: 'kboot_system.cfg' of the work directory and 'i.manifest'
kboot_cfg == <<115, 121, 115, 116, 101, 109, 47, 98, 111, 111, 116, 47,
               107, 98, 111, 111, 116, 46, 99, 102, 103>>
dot_manifest == <<46, 109, 97, 110, 105, 102, 101, 115, 116>>
kboot_system_path == <<107, 98, 111, 111, 116, 95, 115, 121, 115, 116, 101,
                       109, 46, 99, 102, 103>>
manifest_path == <<105, 46, 109, 97, 110, 105, 102, 101, 115, 116>>

\* The whole command file: the actions, then the KBoot configuration and
\* the manifest, each removed and written again.
\* debugfs_file that rewrites the KBoot configuration and the manifest
\* only when the manifest actions hold a change.
debugfs_file_when_changed(dirs, removes_, files_, links_) ==
    debugfs_actions(dirs, removes_, files_, links_)
    \o IF removes_ = <<>> /\ files_ = <<>> /\ links_ = <<>> THEN <<>>
       ELSE << [cmd |-> "rm", path |-> kboot_cfg, arg |-> <<>>],
               [cmd |-> "write", path |-> kboot_cfg, arg |-> escape(kboot_system_path)],
               [cmd |-> "rm", path |-> dot_manifest, arg |-> <<>>],
               [cmd |-> "write", path |-> dot_manifest, arg |-> escape(manifest_path)] >>

debugfs_file(dirs, removes_, files_, links_) ==
    debugfs_actions(dirs, removes_, files_, links_)
    \o << [cmd |-> "rm", path |-> kboot_cfg, arg |-> <<>>],
          [cmd |-> "write", path |-> kboot_cfg, arg |-> escape(kboot_system_path)],
          [cmd |-> "rm", path |-> dot_manifest, arg |-> <<>>],
          [cmd |-> "write", path |-> dot_manifest, arg |-> escape(manifest_path)] >>

\* A filesystem: a set of nodes, one per path; the root directory is <<>>.
Node(path, kind, checksum, target) ==
    [path |-> path, kind |-> kind, checksum |-> checksum, target |-> target]

exists(fs, path) == \E n \in fs : n.path = path

isdir(fs, path) == path = <<>> \/ \E n \in fs : n.path = path /\ n.kind = "dir"

\* The content digest of the host file a write command copies.
digest(files_, i) ==
    IF files_[i][2].cls = "SCons.Node.FS.File"
    THEN get_csig(files_[i][2]) ELSE _checksum_file(files_[i][2])

\* debugfs mkdir, rm, write and symlink: a command that cannot be carried
\* out (the path exists, its parent is no directory, rm of a directory)
\* fails and leaves the filesystem as it was.
debugfs_mkdir(fs, path) ==
    IF ~exists(fs, path) /\ isdir(fs, dirname(path))
    THEN fs \cup {Node(path, "dir", Null, <<>>)} ELSE fs

debugfs_rm(fs, path) == {n \in fs : ~(n.path = path /\ n.kind # "dir")}

debugfs_write(fs, path, checksum) ==
    IF ~exists(fs, path) /\ isdir(fs, dirname(path))
    THEN fs \cup {Node(path, "File", checksum, <<>>)} ELSE fs

debugfs_symlink(fs, path, target) ==
    IF ~exists(fs, path) /\ isdir(fs, dirname(path))
    THEN fs \cup {Node(path, "Link", Null, target)} ELSE fs

\* debugfs -w -f on the commands of the actions, one after the other
RECURSIVE debugfs_mkdirs(_, _)
debugfs_mkdirs(fs, dirs) ==
    IF dirs = <<>> THEN fs
    ELSE debugfs_mkdirs(debugfs_mkdir(fs, Head(dirs)), Tail(dirs))

RECURSIVE debugfs_rms(_, _)
debugfs_rms(fs, removes_) ==
    IF removes_ = <<>> THEN fs
    ELSE debugfs_rms(debugfs_rm(fs, Head(removes_)), Tail(removes_))

RECURSIVE debugfs_writes(_, _, _)
debugfs_writes(fs, files_, i) ==
    IF i > Len(files_) THEN fs
    ELSE debugfs_writes(debugfs_write(fs, files_[i][1], digest(files_, i)),
                        files_, i + 1)

RECURSIVE debugfs_symlinks(_, _)
debugfs_symlinks(fs, links_) ==
    IF links_ = <<>> THEN fs
    ELSE debugfs_symlinks(
             debugfs_symlink(fs, Head(links_)[1], Head(links_)[2].val),
             Tail(links_))

debugfs(fs, dirs, removes_, files_, links_) ==
    debugfs_symlinks(
        debugfs_writes(
            debugfs_rms(debugfs_mkdirs(fs, dirs), removes_), files_, 1),
        links_)

----------------------------------------------------------------------------
(* do_disk_image_parts: the passes that build one disk image, each in a    *)
(* build process of its own, in steps that end at the external commands.   *)
(* Manifest 1 is env['MANIFEST'], object 3 is orig_manifest, and manifest  *)
(* 2 is the old manifest of another image that the process builds first.   *)

\* Paths of the manifests of an image: 'p' and 'd/q'
ImagePaths == { <<112>>, <<100, 47, 113>> }

\* The exit statuses of an external command.
Statuses == {0, 1}

\* run_command that does not look at the exit status.
run_command_unchecked(status) == ""

\* run_command: the exception raised for the exit status of the command,
\* "" when it returns
run_command(status) == IF status # 0 THEN "Command failed" ELSE ""

\* The content of the host file that a write command names: a file of
\* the build, or the KBoot configuration of the work directory.
content(arg) == IF arg \in DOMAIN host THEN host[arg] ELSE "kboot"

\* debugfs -w -f on a command file: each command in turn on the system
\* image, whose '.manifest' is kept apart from its other files.
RECURSIVE debugfs_run(_, _)
debugfs_run(system, commands) ==
    IF commands = <<>> THEN system
    ELSE LET c == Head(commands)
             after ==
                 IF c.path = escape(dot_manifest)
                 THEN IF c.cmd = "rm"
                      THEN [system EXCEPT !.manifest = NoFile]
                      ELSE IF c.cmd = "write" /\ ~system.manifest.exists
                      THEN [system EXCEPT !.manifest = manifest_file]
                      ELSE system
                 ELSE IF c.cmd = "mkdir"
                 THEN [system EXCEPT !.fs = debugfs_mkdir(@, c.path)]
                 ELSE IF c.cmd = "rm"
                 THEN [system EXCEPT !.fs = debugfs_rm(@, c.path)]
                 ELSE IF c.cmd = "write"
                 THEN [system EXCEPT !.fs = debugfs_write(@, c.path, content(c.arg))]
                 ELSE [system EXCEPT !.fs = debugfs_symlink(@, c.path, c.arg)]
         IN debugfs_run(after, Tail(commands))

\* The finally clause of do_disk_image_parts and the exception going up:
\* the work directory is removed and the pass is over.
Abort(img, exc) ==
    [img EXCEPT !.pc = "idle", !.exc = exc, !.tmp_dir = FALSE, !.done = TRUE]

\* What a step of a pass leaves alone.
dip_frame ==
    UNCHANGED <<entries, dependencies, finalised, removes, files, links,
                manifest_file, calls, ret, host, archive, package>>

\* manifest_action: the manifest of the environment is finalised and
\* serialised to '<image>.manifest'.
manifest_action(m) ==
    LET after == Manifest_finalise(Manifest(m))
    IN /\ image.pc = "idle" /\ ~image.done
       /\ ~finalised[m]
       /\ Assign(m, after)
       /\ manifest_file' = [exists |-> TRUE, json |-> json_dumps(after)]
       /\ ret' = Returned("manifest_action", "")
       /\ UNCHANGED <<removes, files, links, calls, host, image, archive,
                       package>>

\* dip_begin that makes the image anew when it cannot read the UUID.
dip_begin_recreate(persistent) ==
    /\ image.pc = "idle" /\ ~image.done
    /\ finalised[1] /\ manifest_file.exists
    /\ LET create == ~(persistent /\ image.system.exists /\ image.uuid_file > 0)
       IN image' = [image EXCEPT
              !.persistent = persistent, !.create = create,
              !.system_uuid = IF create THEN image.uuids + 1 ELSE image.uuid_file,
              !.uuids = IF create THEN @ + 1 ELSE @,
              !.uuid_file = IF create /\ persistent THEN image.uuids + 1 ELSE @,
              !.tmp_dir = TRUE, !.exc = "",
              !.pc = IF create THEN "plan" ELSE "fetch"]
    /\ dip_frame

\* dip_begin that makes a UUID on every pass and writes '.uuid' only when
\* it creates the image.
dip_begin_regenerate(persistent) ==
    /\ image.pc = "idle" /\ ~image.done
    /\ finalised[1] /\ manifest_file.exists
    /\ LET create == ~(persistent /\ image.system.exists)
       IN IF ~create /\ image.uuid_file <= 0
          THEN image' = [image EXCEPT
                   !.persistent = persistent, !.create = FALSE,
                   !.system_uuid = 0, !.done = TRUE,
                   !.exc = "Cannot get image UUID, will not update"]
          ELSE image' = [image EXCEPT
                   !.persistent = persistent, !.create = create,
                   !.system_uuid = image.uuids + 1,
                   !.uuids = @ + 1,
                   !.uuid_file = IF create /\ persistent
                                 THEN image.uuids + 1 ELSE @,
                   !.tmp_dir = TRUE, !.exc = "",
                   !.pc = IF create THEN "plan" ELSE "fetch"]
    /\ dip_frame

\* do_disk_image_parts up to the work directory: create or update is
\* chosen, and the UUID is read from '.uuid' or made and written to it.
dip_begin(persistent) ==
    /\ image.pc = "idle" /\ ~image.done
    /\ finalised[1] /\ manifest_file.exists
    /\ LET create == ~(persistent /\ image.system.exists)
           read == IF image.uuid_file > 0 THEN image.uuid_file ELSE 0
       IN IF ~create /\ read = 0
          THEN image' = [image EXCEPT
                   !.persistent = persistent, !.create = FALSE,
                   !.system_uuid = 0, !.done = TRUE,
                   !.exc = "Cannot get image UUID, will not update"]
          ELSE image' = [image EXCEPT
                   !.persistent = persistent, !.create = create,
                   !.system_uuid = IF create THEN image.uuids + 1 ELSE read,
                   !.uuids = IF create THEN @ + 1 ELSE @,
                   !.uuid_file = IF create /\ persistent
                                 THEN image.uuids + 1 ELSE @,
                   !.tmp_dir = TRUE, !.exc = "",
                   !.pc = IF create THEN "plan" ELSE "fetch"]
    /\ dip_frame

\* The manifest of the image is dumped and loaded into orig_manifest.
dip_fetch(status) ==
    /\ image.pc = "fetch"
    /\ LET exc == run_command(status)
           dumped == IF status = 0 THEN image.system.manifest ELSE NoFile
           loaded == Manifest_deserialise(Manifest_new, dumped, NoTarget)
       IN IF exc # ""
          THEN /\ image' = Abort(image, exc)
               /\ UNCHANGED <<entries, dependencies, finalised>>
          ELSE /\ Assign(3, loaded)
               /\ image' = IF returns(loaded)
                           THEN [image EXCEPT !.pc = "plan"]
                           ELSE Abort(image, loaded.exc)
    /\ UNCHANGED <<removes, files, links, manifest_file, calls, ret, host,
                   archive, package>>

\* The actions are taken from the manifest, and the KBoot configurations
\* and the debugfs command file are written to the work directory.
dip_plan ==
    /\ image.pc = "plan"
    /\ get_actions_call(1, IF image.create THEN 0 ELSE 3)
    /\ image' = [image EXCEPT !.pc = IF image.create THEN "format" ELSE "write"]
    /\ UNCHANGED <<entries, dependencies, finalised, manifest_file, host,
                   archive, package>>

\* The command file of the pass.
debugfs_txt == debugfs_file(ret.dirs, removes, files, links)

\* A new system image file is made and mke2fs formats it.
dip_format(status) ==
    /\ image.pc = "format"
    /\ LET exc == run_command(status)
           made == [image EXCEPT !.system =
                       [exists |-> TRUE,
                        uuid |-> IF status = 0 THEN image.system_uuid ELSE 0,
                        fs |-> {}, manifest |-> NoFile]]
       IN image' = IF exc # "" THEN Abort(made, exc)
                   ELSE [made EXCEPT !.pc = "write"]
    /\ dip_frame

\* debugfs runs the command file on the system image.
dip_write(status) ==
    /\ image.pc = "write"
    /\ LET exc == run_command(status)
       IN image' = IF exc # "" THEN Abort(image, exc)
                   ELSE [image EXCEPT
                            !.system = IF status = 0
                                       THEN debugfs_run(@, debugfs_txt) ELSE @,
                            !.pc = "install"]
    /\ dip_frame

\* On amd64 the boot sector is installed.
dip_install(amd64, status) ==
    /\ image.pc = "install"
    /\ LET exc == IF amd64 THEN run_command(status) ELSE ""
       IN image' = IF exc # "" THEN Abort(image, exc)
                   ELSE [image EXCEPT !.pc = "mkdosfs"]
    /\ dip_frame

\* A new EFI image file is made and mkdosfs formats it.
dip_mkdosfs(status) ==
    /\ image.pc = "mkdosfs"
    /\ LET exc == run_command(status)
           made == [image EXCEPT !.efi =
                       [exists |-> TRUE,
                        state |-> IF status = 0 THEN "formatted" ELSE "empty",
                        uuid |-> 0]]
       IN image' = IF exc # "" THEN Abort(made, exc)
                   ELSE [made EXCEPT !.pc = "fill"]
    /\ dip_frame

\* mmd and mcopy put the directories, the KBoot configuration with the
\* UUID and the EFI binaries on the EFI image; status is that of the first
\* of these commands that fails, if one does.
dip_fill(status) ==
    /\ image.pc = "fill"
    /\ LET exc == run_command(status)
       IN image' = IF exc # "" THEN Abort(image, exc)
                   ELSE [image EXCEPT
                            !.efi.state = IF status = 0 THEN "filled" ELSE @,
                            !.efi.uuid = IF status = 0 THEN image.system_uuid ELSE @,
                            !.pc = "finish"]
    /\ dip_frame

\* The work directory is removed and the '.parts' file is written.
dip_finish ==
    /\ image.pc = "finish"
    /\ image' = [image EXCEPT !.pc = "idle", !.tmp_dir = FALSE, !.exc = "",
                              !.parts = @ + 1, !.done = TRUE]
    /\ dip_frame

\* The running system writes a file of its own to the formatted image.
user_write(path) ==
    /\ image.pc = "idle" /\ image.done
    /\ image.system.uuid # 0
    /\ ~exists(image.system.fs, path)
    /\ isdir(image.system.fs, dirname(path))
    /\ image' = [image EXCEPT !.system.fs = debugfs_write(@, path, "user")]
    /\ dip_frame

\* Between builds the '.uuid' file is deleted (-1) or emptied (0).
uuid_damage(value) ==
    /\ image.pc = "idle" /\ image.done
    /\ image.uuid_file > 0
    /\ image' = [image EXCEPT !.uuid_file = value]
    /\ dip_frame

\* The next build: a new process, with the class ManifestActions and the
\* manifests as they are when the build scripts have been loaded.
new_build ==
    /\ image.pc = "idle" /\ image.done
    /\ image.builds < MaxBuilds
    /\ entries' = [m \in Objects |-> <<>>]
    /\ dependencies' = [m \in Objects |-> <<>>]
    /\ finalised' = [m \in Objects |-> FALSE]
    /\ removes' = <<>> /\ files' = <<>> /\ links' = <<>>
    /\ calls' = 0
    /\ ret' = Returned("__init__", "")
    /\ image' = [image EXCEPT !.done = FALSE, !.builds = @ + 1]
    /\ UNCHANGED <<manifest_file, host, archive, package>>

\* The builds of an image whose passes are persistent or not as in modes.
ImageBuilds(modes) ==
    \/ \E path \in ImagePaths :
          /\ image.pc = "idle" /\ ~image.done
          /\ add_file(1, path, SConsFile(<<110>>), TRUE)
    \/ \E path \in ImagePaths, target \in LinkTargets :
          /\ image.pc = "idle" /\ ~image.done
          /\ add_link(1, path, target)
    \/ manifest_action(1)
    \/ /\ image.pc = "idle" /\ ~image.done
       /\ add_file(2, <<112>>, Str(<<115>>), FALSE)
    \/ image.pc = "idle" /\ ~image.done /\ finalise(2)
    \/ /\ image.pc = "idle" /\ ~image.done
       /\ calls = 0 /\ Built(1, 2) /\ get_actions(1, 2)
    \/ \E persistent \in modes : dip_begin(persistent)
    \/ \E status \in Statuses : dip_fetch(status)
    \/ dip_plan
    \/ \E status \in Statuses : dip_format(status)
    \/ \E status \in Statuses : dip_write(status)
    \/ \E amd64 \in BOOLEAN, status \in Statuses : dip_install(amd64, status)
    \/ \E status \in Statuses : dip_mkdosfs(status)
    \/ \E status \in Statuses : dip_fill(status)
    \/ dip_finish
    \/ user_write(<<112>>)
    \/ \E value \in {-1, 0} : uuid_damage(value)
    \/ new_build

NextImage == ImageBuilds(BOOLEAN)

SpecImage == Init /\ [][NextImage]_vars

\* The builds of a persistent image.
NextPersistent == ImageBuilds({TRUE})

SpecPersistent == Init /\ [][NextPersistent]_vars

----------------------------------------------------------------------------
(* fs_archive_action: the TAR archive of the manifest, written member by   *)
(* member to the target path.                                              *)

\* A member of a TAR archive: its name and its type.
Member(name, type) == [name |-> name, type |-> type]

\* TarFile.getmember(name) finds a member, of whatever type
getmember(members, name) == \E i \in 1..Len(members) : members[i].name = name

\* TARArchive.make_dir: unless a member has the name, the parents are
\* made and the directory is added
RECURSIVE make_dir(_, _)
make_dir(members, name) ==
    IF name = <<>> \/ getmember(members, name) THEN members
    ELSE Append(make_dir(members, dirname(name)), Member(name, "dir"))

\* TARArchive.add_file and TARArchive.add_link: parents, then the member
tar_add(members, path, type) ==
    LET name == lstrip(normpath(path))
    IN Append(make_dir(members, dirname(name)), Member(name, type))

\* TARArchive.__init__: tarfile.open(path, 'w') on the target path
tar_open ==
    /\ finalised[1] /\ manifest_file.exists
    /\ archive.state \in {"absent", "closed", "failed"}
    /\ archive' = [state |-> "open", members |-> <<>>, next |-> 1]
    /\ UNCHANGED <<entries, dependencies, finalised, removes, files, links,
                   manifest_file, calls, ret, host, image, package>>

\* One turn of the loop of fs_archive_action: the next entry is added;
\* when the file of a File entry cannot be opened, the action ends with
\* the exception.
tar_entry(readable) ==
    /\ archive.state = "open"
    /\ archive.next <= Len(entries[1])
    /\ LET entry == entries[1][archive.next]
       IN archive' =
              IF entry.entry_type = "File" /\ ~readable
              THEN [archive EXCEPT
                       !.state = "failed",
                       !.members = make_dir(@, dirname(lstrip(normpath(entry.path))))]
              ELSE [archive EXCEPT
                       !.members = tar_add(@, entry.path,
                                           IF entry.entry_type = "File"
                                           THEN "file" ELSE "link"),
                       !.next = @ + 1]
    /\ UNCHANGED <<entries, dependencies, finalised, removes, files, links,
                   manifest_file, calls, ret, host, image, package>>

\* TARArchive.finish
tar_finish ==
    /\ archive.state = "open"
    /\ archive.next > Len(entries[1])
    /\ archive' = [archive EXCEPT !.state = "closed"]
    /\ UNCHANGED <<entries, dependencies, finalised, removes, files, links,
                   manifest_file, calls, ret, host, image, package>>

\* The manifest of the environment is described and built, then archived.
NextArchive ==
    \/ \E path \in RawPaths, args \in FileArgs :
          archive.state = "absent" /\ add_file(1, path, args[1], args[2])
    \/ \E path \in RawPaths, target \in LinkTargets :
          archive.state = "absent" /\ add_link(1, path, target)
    \/ manifest_action(1)
    \/ tar_open
    \/ \E readable \in BOOLEAN : tar_entry(readable)
    \/ tar_finish

SpecArchive == Init /\ [][NextArchive]_vars

----------------------------------------------------------------------------
(* PackageRepository._extract_package: the work directory of one package,  *)
(* whose manifest is manifest 2 and is combined into manifest 1.           *)

\* The directory the package is extracted to, 'r', and manifest_exclude
work_package_dir == <<114>>
manifest_exclude == { <<98>> }

\* The loop that pops the excluded paths from the entries
exclude(self) ==
    [self EXCEPT !.entries = SelectSeq(@, LAMBDA entry :
        \A exclude_path \in manifest_exclude :
            /\ entry.path # exclude_path
            /\ ~startswith(entry.path, exclude_path \o <<SLASH>>))]

\* _extract_package when the package binary holds `tree` and tar exits with
\* status: the manifest of an unchanged package is loaded from its file;
\* else, and when the load raises, the package is extracted and its
\* manifest is built, finalised and serialised.
_extract_package(tree, status) ==
    LET loaded == Manifest_deserialise(Manifest_new, manifest_file,
                                       Str(work_package_dir))
        built == Manifest_finalise(exclude(
                     Manifest_add_from_dir_tree(Manifest_new, tree,
                         work_package_dir, FALSE, <<>>)))
    IN /\ IF package.compare /\ returns(loaded)
          THEN /\ Assign(2, loaded)
               /\ package' = [package EXCEPT !.extracted = FALSE]
               /\ UNCHANGED manifest_file
          ELSE IF status # 0
          THEN /\ Assign(2, Manifest_new)
               /\ package' = [package EXCEPT !.extracted = TRUE, !.dir = {}]
               /\ UNCHANGED manifest_file
          ELSE /\ Assign(2, built)
               /\ manifest_file' = [exists |-> TRUE, json |-> json_dumps(built)]
               /\ package' = [compare |-> TRUE, dir |-> tree, extracted |-> TRUE]
       /\ ret' = Returned("_extract_package", "")
       /\ UNCHANGED <<removes, files, links, calls, host, image, archive>>

\* The package file is replaced by a new revision.
package_update ==
    /\ package.compare
    /\ package' = [package EXCEPT !.compare = FALSE]
    /\ UNCHANGED <<entries, dependencies, finalised, removes, files, links,
                   manifest_file, calls, ret, host, image, archive>>

\* The manifest file of the package is deleted from the work directory.
manifest_lost ==
    /\ manifest_file.exists
    /\ manifest_file' = NoFile
    /\ UNCHANGED <<entries, dependencies, finalised, removes, files, links,
                   calls, ret, host, image, archive, package>>

\* The builds of a package: it is extracted or loaded, and add_manifests
\* combines its manifest into manifest 1, which the build describes.
NextPackage ==
    \/ \E tree \in Trees, status \in Statuses : _extract_package(tree, status)
    \/ package_update
    \/ manifest_lost
    \/ \E path \in ImagePaths : add_file(1, path, SConsFile(<<110>>), TRUE)
    \/ finalised[2] /\ combine(1, 2)

SpecPackage == Init /\ [][NextPackage]_vars

----------------------------------------------------------------------------
(* The claims.                                                             *)

\* The elements of a list
Range(list) == {list[i] : i \in 1..Len(list)}

\* Two entries are equal for the diff: same kind, and same checksum (File)
\* or same target (Link).
SameEntry(new, old) ==
    /\ new.entry_type = old.entry_type
    /\ new.entry_type = "File" => new.checksum = old.checksum
    /\ new.entry_type = "Link" => new.target = old.target

\* The proper ancestor directories of a path: what precedes each of its slashes.
Ancestors(path) ==
    {SubSeq(path, 1, i - 1) : i \in {k \in 2..Len(path) : path[k] = SLASH}}

\* The most recent call is a get_actions call; New and Old are its manifests.
Diffed == ret.op = "get_actions"
New == entries[ret.self]
Old == IF ret.orig = 0 THEN <<>> ELSE entries[ret.orig]

\* The entries of New that are absent from Old or differ from Old's entry.
NewOrChanged(entry) ==
    ~(has(Old, entry.path) /\ SameEntry(entry, get(Old, entry.path)))

\* The step is a call of add_file, add_link, combine or deserialise on m.
AddFileCall(m, path) == \E args \in FileArgs : add_file(m, path, args[1], args[2])
AddLinkCall(m, path) == \E target \in LinkTargets : add_link(m, path, target)
MutatorCall(m) ==
    \/ \E path \in RawPaths : AddFileCall(m, path) \/ AddLinkCall(m, path)
    \/ \E o \in Manifests : combine(m, o)
    \/ \E root_path \in RootPaths : deserialise(m, root_path)

\* The normalised root-relative form of each path that is passed to the store.
Key == [path \in RawPaths |-> lstrip(normpath(path))]

\* C1: add_file or add_link on an unfinalised manifest, with a path whose
\* normalised root-relative form is already a key, raises an error and
\* leaves the entries and the dependencies of the manifest as they were.
C1_DuplicatePathRaises ==
    [][\A m \in Manifests, path \in RawPaths :
          \/ /\ ret'.exc # ""
             /\ entries' = entries
             /\ dependencies' = dependencies
          \/ ~(/\ ret'.op \in {"add_file", "add_link"}
               /\ ~finalised[m]
               /\ Key[path] \in keys(entries[m])
               /\ AddFileCall(m, path) \/ AddLinkCall(m, path))]_vars

\* C1 witness: an add call has just been refused as a duplicate, for a
\* manifest that holds an entry and is not finalised.
C1_Witness ==
    /\ ret.op \in {"add_file", "add_link"}
    /\ ret.exc = "Adding duplicate path to manifest"
    /\ \E m \in Manifests : ~finalised[m] /\ entries[m] # <<>>

\* C2: a finalised manifest is immutable: whatever is called next, its
\* entries, dependencies and finalised flag stay as they are, and a call of
\* add_file, add_link, combine or deserialise on it raises an error.
C2_FinalisedImmutable ==
    [][\A m \in Manifests : finalised[m] =>
          /\ entries'[m] = entries[m]
          /\ dependencies'[m] = dependencies[m]
          /\ finalised'[m]
          /\ ret'.exc = "" => ~MutatorCall(m)]_vars

\* C2 witness: an add or combine call has just been refused by a finalised
\* manifest that holds entries.
C2_Witness ==
    /\ ret.op \in {"add_file", "add_link", "combine"}
    /\ ret.exc = "Manifest is already finalised"
    /\ \E m \in Manifests : finalised[m] /\ entries[m] # <<>>

\* C3: a path whose entries in the new and the old manifest are equal is
\* in none of removes, files and links returned by get_actions, and
\* S.get_actions(S) returns all three empty.
C3_UnchangedNoAction ==
    Diffed /\ ret.orig # 0 =>
        /\ \A path \in keys(New) \cap keys(Old) :
              SameEntry(get(New, path), get(Old, path)) =>
                  /\ path \notin Range(removes)
                  /\ \A action \in Range(files) \cup Range(links) :
                        action[1] # path
        /\ ret.orig = ret.self => removes = <<>> /\ files = <<>> /\ links = <<>>

\* C4: S.get_actions(None) returns removes empty, and files and links with
\* exactly one (path, target) for each entry of S, File entries in files
\* and Link entries in links.
C4_FullDiff ==
    Diffed /\ ret.orig = 0 =>
        /\ removes = <<>>
        /\ Len(files) + Len(links) = Len(New)
        /\ Range(files) =
              {<<e.path, e.target>> : e \in {x \in Range(New) : x.entry_type = "File"}}
        /\ Range(links) =
              {<<e.path, e.target>> : e \in {x \in Range(New) : x.entry_type = "Link"}}

\* C5: two get_actions calls with the same new and the same old manifest
\* return equal dirs, removes, files and links.
C5_GetActionsPure ==
    [][(/\ Diffed
        /\ ret'.op = "get_actions"
        /\ ret'.self = ret.self
        /\ ret'.orig = ret.orig
        /\ entries' = entries)
       => /\ ret'.dirs = ret.dirs
          /\ removes' = removes
          /\ files' = files
          /\ links' = links]_vars

\* C6: removes of get_actions holds exactly the paths of the old manifest
\* that are absent from the new one or whose entry differs there, each once.
C6_Removes ==
    Diffed =>
        /\ Range(removes) =
              {path \in keys(Old) :
                  ~(has(New, path) /\ SameEntry(get(New, path), get(Old, path)))}
        /\ \A i, j \in 1..Len(removes) : removes[i] = removes[j] => i = j

\* C7: files and links of get_actions hold exactly the entries of the new
\* manifest that are absent from the old one or differ from it, File
\* entries in files and Link entries in links, each once and in the order
\* of insertion into the new manifest.
C7_FilesAndLinks ==
    Diffed =>
        LET want(kind) ==
                SelectSeq(New, LAMBDA e : e.entry_type = kind /\ NewOrChanged(e))
        IN /\ files = [i \in 1..Len(want("File")) |->
                          <<want("File")[i].path, want("File")[i].target>>]
           /\ links = [i \in 1..Len(want("Link")) |->
                          <<want("Link")[i].path, want("Link")[i].target>>]

\* C8: dirs of get_actions holds every proper ancestor directory of every
\* entry path of the manifest, nothing else and nothing twice, and every
\* directory in it comes after each of its own ancestors.
C8_DirsAncestorsFirst ==
    Diffed =>
        LET want == UNION {Ancestors(path) : path \in keys(New)}
        IN /\ Range(ret.dirs) = want
           /\ Len(ret.dirs) = Cardinality(want)
           /\ \A i, j \in 1..Len(ret.dirs) :
                 ret.dirs[i] \in Ancestors(ret.dirs[j]) => i < j

\* C8 witness: get_actions returned three directories, one of them nested
\* in another and a third one sorted between the two.
C8_Witness ==
    /\ Diffed
    /\ \E i, j, k \in 1..Len(ret.dirs) :
          /\ i < k /\ k < j
          /\ ret.dirs[i] \in Ancestors(ret.dirs[j])
          /\ ret.dirs[k] \notin Ancestors(ret.dirs[j])

\* The commands written for the actions of the most recent get_actions call.
Batch == debugfs_actions(ret.dirs, removes, files, links)

Rank(cmd) ==
    IF cmd = "mkdir" THEN 1 ELSE IF cmd = "rm" THEN 2
    ELSE IF cmd = "write" THEN 3 ELSE 4

\* C9: in the command batch, the mkdir commands come first, then the rm
\* commands, then the write commands, then the symlink commands; and every
\* write or symlink of a path comes after the mkdir of each ancestor of the
\* path and, when the old manifest has the path, after the rm of the path.
C9_BatchOrder ==
    Diffed =>
        /\ \A i, j \in 1..Len(Batch) :
              i < j => Rank(Batch[i].cmd) <= Rank(Batch[j].cmd)
        /\ debugfs_file(ret.dirs, removes, files, links)
              = Batch \o SubSeq(debugfs_file(<<>>, <<>>, <<>>, <<>>), 1, 4)
        /\ \A i \in 1..Len(Batch) : Batch[i].cmd \in {"write", "symlink"} =>
              /\ \A dir \in Ancestors(Batch[i].path) :
                    \E j \in 1..(i - 1) :
                        Batch[j].cmd = "mkdir" /\ Batch[j].path = dir
              /\ has(Old, Batch[i].path) =>
                    \E j \in 1..(i - 1) :
                        Batch[j].cmd = "rm" /\ Batch[j].path = Batch[i].path

\* A manifest that a filesystem can hold: no entry path is also a directory.
Realisable(manifest) ==
    \A path \in keys(manifest) : Ancestors(path) \cap keys(manifest) = {}

\* The files and links of a manifest, as nodes of a filesystem.
EntryNodes(manifest) ==
    {Node(e.path, e.entry_type,
          IF e.entry_type = "File" THEN e.checksum ELSE Null,
          IF e.entry_type = "Link" THEN e.target.val ELSE <<>>) :
        e \in Range(manifest)}

\* The filesystem whose files and links are the entries of a manifest.
ImageOf(manifest) ==
    EntryNodes(manifest)
    \cup {Node(dir, "dir", Null, <<>>) :
            dir \in UNION {Ancestors(path) : path \in keys(manifest)}}

\* C10: from a filesystem whose files and links are the entries of the
\* old manifest, running mkdir for dirs, rm for removes, write for files
\* and symlink for links of get_actions, in this order, ends in a
\* filesystem whose files and links are the entries of the new manifest.
C10_ActionsTransformImage ==
    Diffed /\ ret.orig # 0 /\ Realisable(Old) /\ Realisable(New) =>
        {n \in debugfs(ImageOf(Old), ret.dirs, removes, files, links) :
            n.kind # "dir"} = EntryNodes(New)

\* C17: finalise on a finalised manifest changes no entry, no checksum and
\* no flag, and leaves the serialised form as it is, also when the content
\* of a host file has changed since the first finalise.
C17_FinaliseIdempotent ==
    [][\A m \in Manifests :
          (ret'.op = "finalise" /\ finalised[m] /\ finalise(m)) =>
              /\ entries' = entries
              /\ dependencies' = dependencies
              /\ finalised' = finalised
              /\ json_dumps([Manifest(m) EXCEPT !.entries = entries'[m]])
                    = json_dumps(Manifest(m))]_vars

\* C17 witness: finalise has just returned on a finalised manifest holding
\* a File whose checksum is no longer the digest of its host file.
C17_Witness ==
    /\ ret.op = "finalise"
    /\ \A m \in Manifests : entries[m] # <<>> => finalised[m]
    /\ \E m \in Manifests : \E e \in Range(entries[m]) :
          /\ e.entry_type = "File"
          /\ e.checksum # Null
          /\ e.checksum # host[e.target.val]

\* C18: every File entry of a finalised manifest has a checksum, and no
\* Link entry of any manifest has one.
C18_Checksums ==
    \A m \in Objects : \A e \in Range(entries[m]) :
        /\ (finalised[m] /\ e.entry_type = "File") => e.checksum # Null
        /\ e.entry_type = "Link" => e.checksum = Null

\* C18 witness: a manifest finalised by finalise and a manifest finalised by
\* deserialise, each with a File entry, and a Link entry in one of them.
C18_Witness ==
    /\ finalised[1] /\ finalised[3]
    /\ \E e \in Range(entries[1]) : e.entry_type = "File" /\ e.target.cls = "str"
    /\ \E e \in Range(entries[3]) : e.entry_type = "File"
    /\ \E e \in Range(entries[3]) : e.entry_type = "Link"

\* The manifest loaded from the file that B combined into A, finalised and
\* serialised, gives.
RoundTrip(combined, root_path) ==
    Manifest_deserialise(Manifest_new,
        [exists |-> TRUE, json |-> json_dumps(combined)], root_path)

\* C19 as the specification words it: for finalised manifests A and B with
\* disjoint paths, combining B into A, serialising and deserialising gives
\* a manifest whose entries are those of A and of B.
C19_FinalisedRoundTrip ==
    \A a \in Manifests, b \in Manifests, root_path \in RootPaths :
        (/\ a # b /\ finalised[a] /\ finalised[b]
         /\ keys(entries[a]) \cap keys(entries[b]) = {}) =>
            LET combined == Manifest_combine(Manifest(a), Manifest(b))
                loaded == RoundTrip(combined, root_path)
            IN /\ returns(combined) /\ returns(loaded)
               /\ EntryNodes(loaded.entries)
                     = EntryNodes(entries[a]) \cup EntryNodes(entries[b])

\* C19: for a manifest A that is not finalised and a finalised manifest B
\* with disjoint paths, combining B into A, finalising A, serialising it and
\* deserialising the file into an empty manifest gives a manifest whose
\* entries (path, kind, checksum or link target) are those of the finalised
\* A and of B.
C19_RoundTrip ==
    \A a \in Manifests, b \in Manifests, root_path \in RootPaths :
        (/\ ~finalised[a] /\ finalised[b]
         /\ keys(entries[a]) \cap keys(entries[b]) = {}) =>
            LET combined ==
                    Manifest_finalise(Manifest_combine(Manifest(a), Manifest(b)))
                loaded == RoundTrip(combined, root_path)
            IN /\ returns(combined) /\ returns(loaded)
               /\ loaded.finalised
               /\ EntryNodes(loaded.entries)
                     = EntryNodes(Manifest_finalise(Manifest(a)).entries)
                       \cup EntryNodes(entries[b])

\* C19 witness: manifest 3 has just been loaded from the file of manifest
\* 1, which holds an entry of its own and the entry of manifest 2, a File
\* and a Link between them.
C19_Witness ==
    /\ ret.op = "deserialise" /\ ret.exc = ""
    /\ manifest_file.exists /\ manifest_file.json = json_dumps(Manifest(1))
    /\ finalised[1] /\ finalised[2] /\ finalised[3]
    /\ entries[2] # <<>>
    /\ Len(entries[1]) > Len(entries[2])
    /\ Range(entries[2]) \subseteq Range(entries[1])
    /\ EntryNodes(entries[3]) = EntryNodes(entries[1])
    /\ \E e \in Range(entries[3]) : e.entry_type = "File"
    /\ \E e \in Range(entries[3]) : e.entry_type = "Link"

\* C20: self.combine(other) returns exactly when self is not finalised,
\* other is finalised and they share no path, and raises otherwise; when it
\* returns, the entries of self are its former entries followed by those of
\* other with their checksums, self is not finalised and other is as it was.
C20_CombineContract ==
    [][\A m \in Manifests, o \in Manifests :
          (ret'.op = "combine" /\ combine(m, o)) =>
              LET ok == /\ ~finalised[m] /\ finalised[o]
                        /\ keys(entries[m]) \cap keys(entries[o]) = {}
              IN /\ (ret'.exc = "") <=> ok
                 /\ ok => /\ entries'[m] = entries[m] \o entries[o]
                          /\ ~finalised'[m]
                          /\ entries'[o] = entries[o]
                          /\ dependencies'[o] = dependencies[o]
                          /\ finalised'[o]]_vars

\* C20 witness: combine has just returned on a manifest that is not
\* finalised and holds an entry without a checksum followed by an entry
\* with one.
C20_Witness ==
    /\ ret.op = "combine" /\ ret.exc = ""
    /\ \E m \in Manifests :
          /\ ~finalised[m]
          /\ Len(entries[m]) >= 2
          /\ entries[m][1].entry_type = "File" /\ entries[m][1].checksum = Null
          /\ entries[m][Len(entries[m])].checksum # Null

\* A step of do_disk_image_parts that runs an external command.
CommandStep(status) ==
    \/ dip_fetch(status) \/ dip_format(status) \/ dip_write(status)
    \/ dip_install(TRUE, status) \/ dip_mkdosfs(status) \/ dip_fill(status)

NoUuid == "Cannot get image UUID, will not update"

\* C11: a persistent pass of do_disk_image_parts that finds the system
\* image file and no UUID in the '.uuid' file (missing, unreadable or
\* empty) raises before it changes anything: system image, '.uuid', EFI
\* image and '.parts' are as they were and no UUID is generated.
C11_NoUuidRefuses ==
    [][(/\ image.system.exists /\ image.uuid_file <= 0
        /\ image.pc = "idle" /\ image'.persistent
        /\ dip_begin(TRUE))
       => /\ image'.exc = NoUuid
          /\ image'.pc = "idle" /\ image'.done /\ ~image'.tmp_dir
          /\ image'.system = image.system
          /\ image'.uuid_file = image.uuid_file
          /\ image'.efi = image.efi
          /\ image'.parts = image.parts
          /\ image'.uuids = image.uuids]_vars

C11_Witness ==
    /\ image.exc = NoUuid /\ image.persistent
    /\ image.system.uuid # 0 /\ image.system.manifest.exists
    /\ image.uuid_file = 0
    /\ image.efi.state = "filled" /\ image.parts > 0

\* C12: in a sequence of persistent builds of an image, a UUID is made
\* and '.uuid' written only by a pass that creates the system image; a
\* pass that updates it leaves '.uuid' as it is and puts that UUID in the
\* EFI configuration; the UUID in '.uuid', the UUID the system image was
\* formatted with and the UUID in the EFI configuration are equal.
C12_UuidPreserved ==
    [][/\ (image'.uuids # image.uuids \/ image'.uuid_file > image.uuid_file)
          => /\ image.pc = "idle" /\ image'.pc = "plan"
             /\ image'.create /\ ~image.system.exists
             /\ image'.uuids = image.uuids + 1
             /\ image'.uuid_file = image'.uuids
             /\ image'.system_uuid = image'.uuids
       /\ (image.pc # "idle" /\ ~image.create)
          => image'.uuid_file = image.uuid_file
       /\ (image.pc = "fill" /\ image'.pc = "finish" /\ ~image.create)
          => image'.efi.uuid = image'.uuid_file
       /\ (image'.uuid_file > 0 /\ image'.system.uuid # 0)
          => image'.system.uuid = image'.uuid_file
       /\ (image'.uuid_file > 0 /\ image'.efi.state = "filled")
          => image'.efi.uuid = image'.uuid_file]_vars

C12_Witness ==
    /\ image.builds = 2 /\ image.pc = "idle" /\ image.done /\ image.exc = ""
    /\ image.persistent /\ ~image.create /\ image.parts = 2
    /\ image.uuid_file = 1 /\ image.system.uuid = 1
    /\ image.efi.state = "filled" /\ image.efi.uuid = 1
    /\ image.uuids = 1

\* C13: do_disk_image_parts creates the system image exactly when the
\* pass is not persistent or the system image file does not exist, and
\* then applies the full diff, taken with no old manifest; a persistent
\* pass that finds the system image neither truncates nor formats it and
\* applies only the diff against the manifest embedded in it, so that the
\* files of the image that are in neither manifest are left as they are.
C13_CreateOrUpdate ==
    [][/\ (image.pc = "idle" /\ image'.pc # "idle")
          => (image'.create <=> (~image'.persistent \/ ~image.system.exists))
       /\ (image.system.exists
           /\ (image'.system.uuid # image.system.uuid \/ image.pc = "format"))
          => image.create /\ ~image.persistent
       /\ (image.pc = "plan" /\ image'.pc # "idle")
          => LET orig == IF image.create THEN None ELSE Some(3)
             IN /\ removes' = get_actions_removes(Manifest(1), orig)
                /\ files' = get_actions_files(Manifest(1), orig)
                /\ links' = get_actions_links(Manifest(1), orig)
       /\ (image.pc = "write" /\ ~image.create /\ image'.pc = "install")
          => \A n \in image.system.fs :
                (n.kind # "dir" /\ n.path \notin keys(entries[1])
                                               \cup keys(entries[3]))
                => n \in image'.system.fs]_vars

\* C14: the command file of every pass of do_disk_image_parts, create or
\* update and whatever the diff holds, ends by removing and writing
\* system/boot/kboot.cfg and then '.manifest'; after every pass that
\* succeeds the '.manifest' of the image is the manifest of that pass.
C14_AlwaysRewritten ==
    /\ image.pc \in {"format", "write"}
       => /\ Len(debugfs_txt) >= 4
          /\ SubSeq(debugfs_txt, Len(debugfs_txt) - 3, Len(debugfs_txt)) =
                << [cmd |-> "rm", path |-> kboot_cfg, arg |-> <<>>],
                   [cmd |-> "write", path |-> kboot_cfg,
                    arg |-> escape(kboot_system_path)],
                   [cmd |-> "rm", path |-> dot_manifest, arg |-> <<>>],
                   [cmd |-> "write", path |-> dot_manifest,
                    arg |-> escape(manifest_path)] >>
    /\ (image.pc = "idle" /\ image.done /\ image.exc = "")
       => image.system.manifest =
             [exists |-> TRUE, json |-> json_dumps(Manifest(1))]

C14_Witness ==
    /\ image.builds = 2 /\ image.pc = "idle" /\ image.done /\ image.exc = ""
    /\ ~image.create
    /\ removes = <<>> /\ files = <<>> /\ links = <<>>
    /\ Len(entries[1]) = 2
    /\ image.system.manifest.json = json_dumps(Manifest(1))

\* C15: the final path of an archive or of an image never holds a partly
\* written output, neither while fs_archive_action, boot_archive_action or
\* do_disk_image_parts runs nor after it has failed.
C15_NoPartialOutput ==
    /\ archive.state \in {"absent", "closed"}
    /\ image.system.exists
       => image.system.uuid # 0 /\ image.system.manifest.exists
    /\ image.efi.exists => image.efi.state = "filled"

\* C16: when a command run through run_command in do_disk_image_parts
\* exits with a status other than zero, an exception is raised, no later
\* command of the invocation is run, '.parts' is not written and the work
\* directory is removed.
C16_CommandFailureAborts ==
    [][/\ (image.pc # "idle"
           /\ \E status \in Statuses \ {0} : CommandStep(status))
          => /\ image'.exc = "Command failed"
             /\ image'.pc = "idle" /\ image'.done
             /\ ~image'.tmp_dir
             /\ image'.parts = image.parts
       /\ (image.exc # "" /\ image.done)
          => \/ image'.pc = "idle" /\ image'.parts = image.parts
                /\ image'.system.uuid = image.system.uuid
                /\ image'.system.manifest = image.system.manifest
                /\ image'.efi = image.efi
             \/ image'.builds # image.builds]_vars

C16_Witness ==
    /\ image.exc = "Command failed" /\ image.pc = "idle" /\ image.done
    /\ ~image.tmp_dir /\ image.parts = 0
    /\ image.system.uuid # 0 /\ image.efi.state = "formatted"

\* C23: deserialise on a manifest that has an entry or is finalised raises
\* and leaves the manifest as it was, so that a second deserialise on a
\* manifest fails; when deserialise returns, the manifest was empty and
\* not finalised, and it is finalised with no dependencies afterwards.
C23_DeserialiseGuard ==
    [][\A m \in Manifests, root_path \in RootPaths :
          (ret'.op = "deserialise" /\ deserialise(m, root_path)) =>
              LET refused == entries[m] # <<>> \/ finalised[m]
              IN /\ refused => /\ ret'.exc # ""
                               /\ entries' = entries
                               /\ dependencies' = dependencies
                               /\ finalised' = finalised
                 /\ ret'.exc = "" => /\ ~refused
                                     /\ finalised'[m]
                                     /\ dependencies'[m] = <<>>
                 /\ (ret.op = "deserialise" /\ ret.exc = "" /\ finalised[m])
                       => ret'.exc # ""]_vars

\* C23 witness: a manifest loaded by deserialise has just refused a second
\* deserialise.
C23_Witness ==
    /\ ret.op = "deserialise"
    /\ ret.exc = "Deserialsing to non-empty manifest"
    /\ manifest_file.exists /\ manifest_file.json # <<>>
    /\ \E m \in Manifests :
          /\ finalised[m] /\ dependencies[m] = <<>>
          /\ \E e \in Range(entries[m]) :
                e.entry_type = "File" /\ e.target.cls # "SCons.Node.FS.File"
          /\ \A o \in Manifests \ {m} : entries[o] = <<>> /\ finalised[o]

\* C29: between the passes of a persistent image, failed passes included,
\* a system image file that exists beside a '.uuid' file holding a UUID is
\* formatted with that UUID and holds a '.manifest', so that the next pass
\* can update it.
C29_UpdatableImage ==
    (image.pc = "idle" /\ image.system.exists /\ image.uuid_file > 0)
        => /\ image.system.uuid = image.uuid_file
           /\ image.system.manifest.exists

\* C30: no path of a manifest is both an entry and a proper ancestor
\* directory of another entry: the directories of _get_dirs and the entry
\* paths are disjoint.
C30_EntriesAndDirsDisjoint ==
    \A m \in Manifests :
        Range(_get_dirs(Manifest(m))) \cap keys(entries[m]) = {}

\* C27: no action of get_actions removes a directory: dirs is that of the
\* new manifest alone, the batch has no command but mkdir, rm, write and
\* symlink, no rm names a directory of the image, and every directory of
\* the image is still there after an update, also one that only entries
\* of the old manifest implied.
C27_DirectoriesStay ==
    [][/\ (image.pc = "plan" /\ image'.pc # "plan")
          => /\ ret'.dirs = _get_dirs(Manifest(1))
             /\ \A c \in Range(debugfs_file(ret'.dirs, removes', files', links')) :
                   c.cmd \in {"mkdir", "rm", "write", "symlink"}
             /\ \A path \in Range(removes') : ~isdir(image.system.fs, path)
       /\ (image.pc = "write" /\ image'.pc = "install")
          => \A n \in image.system.fs :
                n.kind = "dir" => n \in image'.system.fs]_vars

\* C27 witness: an update pass has succeeded on an image whose directory
\* 'd' was implied by the entry 'd/q' of the old manifest alone; the new
\* manifest has no entry below 'd', and 'd' is in the image, empty.
C27_Witness ==
    /\ image.pc = "idle" /\ image.done /\ image.exc = "" /\ ~image.create
    /\ finalised[3] /\ <<100, 47, 113>> \in keys(entries[3])
    /\ entries[1] # <<>> /\ keys(entries[1]) = {<<112>>}
    /\ isdir(image.system.fs, <<100>>)
    /\ ~exists(image.system.fs, <<100, 47, 113>>)
    /\ exists(image.system.fs, <<112>>)

\* C21: the dependencies of a manifest are the targets of the tracked
\* add_file insertions, its own and those of the manifests combined into
\* it, once per tracked insertion and in insertion order: a tracked
\* add_file that returns appends its target, an untracked add_file, an
\* add_link and a call that raises append nothing, and a combine that
\* returns appends the dependencies of the other manifest, in their order.
C21_Dependencies ==
    [][/\ \A m \in {2, 3}, path \in CombinePaths, args \in DepArgs :
             (ret'.op = "add_file" /\ add_file(m, path, args[1], args[2]))
                => dependencies'[m] =
                      IF ret'.exc = "" /\ args[2]
                      THEN Append(dependencies[m], args[1])
                      ELSE dependencies[m]
       /\ ret'.op \in {"add_link", "finalise"} => dependencies' = dependencies
       /\ (ret'.op = "combine" /\ ret'.exc = "")
             => /\ dependencies'[3] = dependencies[3] \o dependencies[2]
                /\ dependencies'[2] = dependencies[2]]_vars

\* C28: a combine call that raises leaves the entries and the dependencies
\* of the receiving manifest as they were before the call.
C28_FailedCombineUnchanged ==
    [][(ret'.op = "combine" /\ ret'.exc # "")
          => /\ entries'[3] = entries[3]
             /\ dependencies'[3] = dependencies[3]]_vars

\* C22: serialise on a manifest that is not finalised raises and writes
\* nothing; on a finalised manifest it returns, and the manifest that
\* deserialise loads from its output into an empty manifest has the same
\* paths, each with the same kind and the same checksum (File) or link
\* target (Link), so that get_actions of one against the other returns
\* removes, files and links empty.
C22_SerialiseRoundTrip ==
    [][/\ ret'.op = "serialise"
          => IF finalised[1]
             THEN /\ ret'.exc = ""
                  /\ manifest_file'.exists
                  /\ manifest_file'.json = json_dumps(Manifest(1))
             ELSE ret'.exc # "" /\ manifest_file' = manifest_file
       /\ (ret'.op = "deserialise" /\ ret'.exc = "")
          => /\ keys(entries'[3]) = keys(entries[1])
             /\ EntryNodes(entries'[3]) = EntryNodes(entries[1])
       /\ (ret'.op = "get_actions" /\ ret'.orig # 0 /\ finalised[3])
          => removes' = <<>> /\ files' = <<>> /\ links' = <<>>]_vars

\* C24: in the archive that TARArchive writes, no directory member is
\* emitted twice, and every ancestor directory of a member is emitted as
\* a directory member before that member.
C24_ArchiveDirectories ==
    LET members == archive.members
    IN /\ \A i, j \in 1..Len(members) :
             (/\ members[i].type = "dir" /\ members[j].type = "dir"
              /\ members[i].name = members[j].name) => i = j
       /\ \A i \in 1..Len(members) : \A dir \in Ancestors(members[i].name) :
             \E j \in 1..(i - 1) :
                members[j].type = "dir" /\ members[j].name = dir

\* The path of a node of a host directory tree, the nodes of the tree
\* below source_path, and those of them that are reached from source_path
\* through directories that can be listed.
Full(n) == os_path_join(n.dir, n.name)

Under(tree, source_path) ==
    {n \in tree : startswith(Full(n), source_path \o <<SLASH>>)}

Reached(tree, source_path) ==
    {n \in Under(tree, source_path) :
        \A dir \in Ancestors(Full(n)) \cup {source_path} :
            (dir = source_path \/ startswith(dir, source_path \o <<SLASH>>))
                => listable(tree, dir)}

\* The entry that a regular file or a symbolic link of the tree is to get.
TreeEntry(n, source_path, tracked, dest_path) ==
    LET rel == SubSeq(Full(n), Len(source_path) + 2, Len(Full(n)))
        path == IF dest_path = <<>> THEN rel ELSE dest_path \o <<SLASH>> \o rel
    IN IF n.kind = "link"
       THEN ManifestEntry(path, "Link", Str(n.target), Null)
       ELSE ManifestEntry(path, "File",
                IF tracked THEN SConsFile(Full(n)) ELSE Str(Full(n)), Null)

\* The order in which a walk that takes the names of each directory in
\* sorted order meets two paths: by the first component in which they differ.
WalkedBefore(p, q) ==
    \E k \in 1..Len(split(p)) :
        /\ k <= Len(split(q))
        /\ SubSeq(split(p), 1, k - 1) = SubSeq(split(q), 1, k - 1)
        /\ strless(split(p)[k], split(q)[k])

\* A step of add_from_dir_tree appends one entry for each regular file and
\* each symbolic link among nodes, in the order of the walk, and changes
\* no entry that was there.
DirTreeAdds(nodes, source_path, tracked, dest_path) ==
    LET before == Len(entries[1])
        added == SubSeq(entries'[1], before + 1, Len(entries'[1]))
        wanted == {TreeEntry(n, source_path, tracked, dest_path) :
                      n \in {x \in nodes : x.kind \in {"file", "link"}}}
    IN /\ Len(entries'[1]) >= before
       /\ SubSeq(entries'[1], 1, before) = entries[1]
       /\ Range(added) = wanted
       /\ Len(added) = Cardinality(wanted)
       /\ \A i, j \in 1..Len(added) :
             i < j => WalkedBefore(added[i].path, added[j].path)

C25_UnloadableManifestIsError ==
    [][/\ (/\ ret'.op = "_extract_package"
           /\ package.compare /\ ~manifest_file.exists
           /\ \E tree \in Trees, status \in Statuses :
                 _extract_package(tree, status))
          => /\ ret'.exc # ""
             /\ ~package'.extracted
             /\ manifest_file' = manifest_file
       /\ (image.pc = "fetch" /\ image'.pc # "fetch"
           /\ ~image.system.manifest.exists)
          => /\ image'.exc # "" /\ image'.pc = "idle"
             /\ image'.system = image.system]_vars

====
